---------------------------- MODULE Spec2Model ----------------------------
(***************************************************************************)
(* A model of the CEDmate analytics core: column detection, the four chart *)
(* synthesizers, the orchestrator generate_analytics_for_user, the         *)
(* /analytics endpoint's result mapping and the PDF exporter.              *)
(*                                                                         *)
(* Two specifications:                                                     *)
(*   SpecPlot  one call of a detector or of a chart synthesizer on a table *)
(*             drawn from a bounded family of tables;                      *)
(*   Spec      invocations of the orchestrator (directly, through the      *)
(*             endpoint, through the exporter, or two of them at once from *)
(*             two threads), one step per library call.                    *)
(***************************************************************************)
EXTENDS Integers, Sequences, FiniteSets, TLC

VARIABLES
    df,       \* SpecPlot: the table handed to the call (mutated in place)
    dfin,     \* SpecPlot: the table as it was before the call
    op,       \* SpecPlot: the operation applied ("none" before the call)
    pref,     \* SpecPlot: the preference list handed to _detect_value_col
    tcol,     \* SpecPlot: the time column the call resolved (None: <<>>)
    vcol,     \* SpecPlot: the value column the call resolved (None: <<>>)
    ret,      \* SpecPlot: the value the call returned
    files,    \* the output directory: path -> content of the file
    figs,     \* pyplot's figure registry; the last figure is the current one
    store,    \* Spec: the document store, user -> collection -> table
    app,      \* Spec: whether firebase_admin's default app is initialized
    th        \* Spec: thread -> the state of its invocation

vars == <<df, dfin, op, pref, tcol, vcol, ret, files, figs, store, app, th>>

---------------------------------------------------------------------------
(* Bounds of the model.                                                    *)

MaxCols == 3      \* columns of a table of the column family
MaxRows == 3      \* rows of a table of the row family
MaxTick == 3      \* time values are ticks 0..MaxTick
TicksPerDay == 2  \* ticks of one calendar date
MaxExtra == 1     \* rows a raw table may hold beyond the exporter's limit

---------------------------------------------------------------------------
(* Strings.  A name is the sequence of its characters, so that lower() and *)
(* the substring test are computed, not assumed.                           *)

UpperMap ==
    [A |-> "a", B |-> "b", C |-> "c", D |-> "d", E |-> "e", F |-> "f",
     G |-> "g", H |-> "h", I |-> "i", J |-> "j", K |-> "k", L |-> "l",
     M |-> "m", N |-> "n", O |-> "o", P |-> "p", Q |-> "q", R |-> "r",
     S |-> "s", T |-> "t", U |-> "u", V |-> "v", W |-> "w", X |-> "x",
     Y |-> "y", Z |-> "z"]

LowerChar(c) == IF c \in DOMAIN UpperMap THEN UpperMap[c] ELSE c

\* str.lower()
Lower(s) == [i \in 1..Len(s) |-> LowerChar(s[i])]

\* key in s
Contains(key, s) ==
    \E i \in 0..(Len(s) - Len(key)) : SubSeq(s, i + 1, i + Len(key)) = key

Min(S) == CHOOSE m \in S : \A n \in S : m <= n

\* Python's None (also the falsy value of "if not tcol")
None == <<>>

name_order ==
    << <<"z","e","i","t">>,
       <<"t","i","m","e">>,
       <<"d","a","t","u","m">>,
       <<"d","a","t","e">>,
       <<"t","i","m","e","s","t","a","m","p">>,
       <<"s","t","a","r","t","z","e","i","t">>,
       <<"e","n","d","z","e","i","t">>,
       <<"m","a","h","l","z","e","i","t","z","e","i","t","p","u","n","k","t">> >>

\* the preferred value-column names of the three value charts
PrefStuhlgang ==
    << <<"k","o","n","s","i","s","t","e","n","z">>,
       <<"b","r","i","s","t","o","l">>,
       <<"t","y","p">>,
       <<"s","c","o","r","e">>,
       <<"w","e","r","t">>,
       <<"l","e","v","e","l">>,
       <<"i","n","t","e","n","s","i","t","a","e","t">>,
       <<"i","n","t","e","n","s","i","t","ä","t">>,
       <<"s","t","a","e","r","k","e">>,
       <<"s","t","ä","r","k","e">> >>

PrefStimmung ==
    << <<"w","e","r","t">>, <<"s","c","o","r","e">>, <<"l","e","v","e","l">> >>

PrefSymptome ==
    << <<"i","n","t","e","n","s","i","t","a","e","t">>,
       <<"i","n","t","e","n","s","i","t","ä","t">>,
       <<"s","t","a","e","r","k","e">>,
       <<"s","t","ä","r","k","e">>,
       <<"w","e","r","t">>,
       <<"s","c","o","r","e">>,
       <<"l","e","v","e","l">>,
       <<"s","c","h","m","e","r","z">>,
       <<"s","e","v","e","r","i","t","y">> >>

---------------------------------------------------------------------------
(* Tables.  A table (DataFrame) is a sequence of columns; a column has a   *)
(* name, a dtype ("datetime", "numeric" or "object") and one cell per row. *)
(* A cell is a datetime value, a number, a string that parses as a         *)
(* date/time, a string that does not, or a null (None, NaN, NaT).          *)

Dt(t)  == [k |-> "dt",  v |-> t]
Num(n) == [k |-> "num", v |-> n]
Str(t) == [k |-> "str", v |-> t]
Bad    == [k |-> "bad", v |-> 0]
Null   == [k |-> "null", v |-> 0]

Col(n, d, cs) == [name |-> n, dtype |-> d, cells |-> cs]

NRows(t) == IF Len(t) = 0 THEN 0 ELSE Len(t[1].cells)

\* (mutant) empty only when there is no column
MutIsEmptyNoColumns(t) == Len(t) = 0

\* DataFrame.empty: some axis has length 0
IsEmpty(t) == Len(t) = 0 \/ NRows(t) = 0

ColIdx(t, n) == CHOOSE i \in 1..Len(t) : t[i].name = n

CellsOf(t, n) == t[ColIdx(t, n)].cells

is_datetime64_any_dtype(c) == c.dtype = "datetime"

is_numeric_dtype(c) == c.dtype = "numeric"

\* pd.to_datetime(series) raises on a value it cannot parse
CanParse(cs) == \A i \in 1..Len(cs) : cs[i].k # "bad"

\* pd.to_datetime of one value; errors='coerce' turns a failure into NaT
ToDatetimeCell(c) == IF c.k \in {"bad", "null"} THEN Null ELSE Dt(c.v)

ToDatetime(cs) == [i \in 1..Len(cs) |-> ToDatetimeCell(cs[i])]

---------------------------------------------------------------------------
(* Column detection.                                                       *)

\* (mutant) the parsed column is not assigned back
MutConvertColNotInPlace(t, i) == t

\* df[c] = pd.to_datetime(df[c]), in place
ConvertCol(t, i) ==
    [t EXCEPT ![i] = Col(t[i].name, "datetime", ToDatetime(t[i].cells))]

\* the name heuristic of _detect_time_col, from fragment k on: for each
\* fragment the first column whose lowered name contains it is parsed and,
\* when that succeeds, converted in place and returned
RECURSIVE NameScan(_, _)
NameScan(t, k) ==
    IF k > Len(name_order) THEN [col |-> None, df |-> t]
    ELSE LET cand == {i \in 1..Len(t) : Contains(name_order[k], Lower(t[i].name))}
         IN  IF cand # {} /\ CanParse(t[Min(cand)].cells)
             THEN [col |-> t[Min(cand)].name, df |-> ConvertCol(t, Min(cand))]
             ELSE NameScan(t, k + 1)

\* (mutant) the name heuristic runs before the dtype check
MutDetectTimeColNameFirst(t) ==
    LET dt_cols == {i \in 1..Len(t) : is_datetime64_any_dtype(t[i])}
    IN  IF NameScan(t, 1).col # None THEN NameScan(t, 1)
        ELSE IF dt_cols # {} THEN [col |-> t[Min(dt_cols)].name, df |-> t]
        ELSE [col |-> None, df |-> t]

\* _detect_time_col(df): the column it returns and df as it leaves it
DetectTimeCol(t) ==
    LET dt_cols == {i \in 1..Len(t) : is_datetime64_any_dtype(t[i])}
    IN  IF dt_cols # {} THEN [col |-> t[Min(dt_cols)].name, df |-> t]
        ELSE NameScan(t, 1)

FirstNumeric(t) ==
    LET num_cols == {i \in 1..Len(t) : is_numeric_dtype(t[i])}
    IN  IF num_cols # {} THEN t[Min(num_cols)].name ELSE None

\* the preferred-name loop of _detect_value_col, from name k on
RECURSIVE PrefScan(_, _, _)
PrefScan(t, preference, k) ==
    IF k > Len(preference) THEN FirstNumeric(t)
    ELSE LET cols == {i \in 1..Len(t) : preference[k] = Lower(t[i].name)}
         IN  IF cols # {} /\ is_numeric_dtype(t[Min(cols)])
             THEN t[Min(cols)].name
             ELSE PrefScan(t, preference, k + 1)

\* _detect_value_col(df, preference)
DetectValueCol(t, preference) == PrefScan(t, preference, 1)

---------------------------------------------------------------------------
(* pyplot.  The figure registry is module state of matplotlib.pyplot: a    *)
(* figure is what has been drawn on it, and every drawing call acts on the *)
(* current (last created, not yet closed) figure.                          *)

BlankFigure == [artists |-> <<>>, xlabel |-> None, ylabel |-> None, title |-> None]

\* gcf(): a figure is created when there is none
WithCurrent(fs) == IF fs = <<>> THEN <<BlankFigure>> ELSE fs

PltFigure(fs) == Append(fs, BlankFigure)

PltDraw(fs, a) ==
    LET g == WithCurrent(fs)
    IN  [g EXCEPT ![Len(g)].artists = Append(@, a)]

PltLabels(fs, xl, yl, ti) ==
    LET g == WithCurrent(fs)
    IN  [g EXCEPT ![Len(g)].xlabel = xl, ![Len(g)].ylabel = yl, ![Len(g)].title = ti]

\* what savefig writes: the current figure
PltSaved(fs) == WithCurrent(fs)[Len(WithCurrent(fs))]

PltClose(fs) == IF fs = <<>> THEN <<>> ELSE SubSeq(fs, 1, Len(fs) - 1)

---------------------------------------------------------------------------
(* The chart synthesizers, up to the first pyplot call: what they resolve, *)
(* whether they return None, and what they are about to draw.              *)

OutPath(prefix, user) == <<prefix, user>>

Plan(t, tc, vc, absent, path, artist, xl, yl, ti) ==
    [df |-> t, tcol |-> tc, vcol |-> vc, absent |-> absent, path |-> path,
     artist |-> artist, xlabel |-> xl, ylabel |-> yl, title |-> ti]

NoArtist == [kind |-> "none", x |-> <<>>, y |-> <<>>]

\* the early return of a synthesizer
AbsentPlan(t, tc, vc) == Plan(t, tc, vc, TRUE, None, NoArtist, None, None, None)

Scatter(t, tc, vc) == [kind |-> "scatter", x |-> CellsOf(t, tc), y |-> CellsOf(t, vc)]

\* plot_stuhlgang and plot_symptome differ in the preference list, the file
\* name and the labels
ScatterPlan(t, user, preference, prefix, yl, ti) ==
    IF IsEmpty(t) THEN AbsentPlan(t, None, None)
    ELSE LET d == DetectTimeCol(t)
             v == DetectValueCol(d.df, preference)
         IN  IF d.col = None \/ v = None THEN AbsentPlan(d.df, d.col, v)
             ELSE Plan(d.df, d.col, v, FALSE, OutPath(prefix, user),
                       Scatter(d.df, d.col, v), <<"Zeit">>,
                       IF yl = None THEN v ELSE yl,
                       <<ti, user>>)

StuhlgangPlan(t, user) ==
    ScatterPlan(t, user, PrefStuhlgang, "stuhlgang_scatter", None, "Stuhlgang")

SymptomePlan(t, user) ==
    ScatterPlan(t, user, PrefSymptome, "symptome_scatter", <<"Symptomstärke">>, "Symptome")

\* (mutant) the sorted copy is dropped: df.sort_values(tcol) unassigned
MutTakeRowsUnsorted(t, perm) == t

\* the rows of t in the order perm, a sequence of row numbers
TakeRows(t, perm) ==
    [c \in 1..Len(t) |->
        Col(t[c].name, t[c].dtype, [i \in 1..Len(perm) |-> t[c].cells[perm[i]]])]

\* a sorts strictly before b: ascending, nulls (NaT) last
Before(a, b) == a.k # "null" /\ (b.k = "null" \/ a.v < b.v)

InsertInto(p, i, cs) ==
    LET later == {j \in 1..Len(p) : Before(cs[i], cs[p[j]])}
        pos == IF later = {} THEN Len(p) + 1 ELSE Min(later)
    IN  SubSeq(p, 1, pos - 1) \o <<i>> \o SubSeq(p, pos, Len(p))

RECURSIVE SortFrom(_, _)
SortFrom(cs, k) == IF k = 0 THEN <<>> ELSE InsertInto(SortFrom(cs, k - 1), k, cs)

\* the order sort_values gives when it keeps the order of equal keys
StableSortPerm(cs) == SortFrom(cs, Len(cs))

Perms(n) == {p \in [1..n -> 1..n] : \A i, j \in 1..n : p[i] = p[j] => i = j}

\* every order sort_values(tcol) may give: the default sort is not stable,
\* so rows with equal keys come in any order
SortPerms(cs) ==
    {p \in Perms(Len(cs)) :
        \A i, j \in 1..Len(cs) : i < j => ~Before(cs[p[j]], cs[p[i]])}

\* plot_stimmung, perm being the order sort_values gave
StimmungPlan(t, user, perm) ==
    IF IsEmpty(t) THEN AbsentPlan(t, None, None)
    ELSE LET d == DetectTimeCol(t)
             v == DetectValueCol(d.df, PrefStimmung)
         IN  IF d.col = None \/ v = None THEN AbsentPlan(d.df, d.col, v)
             ELSE LET sorted == TakeRows(d.df, perm)
                  IN  Plan(d.df, d.col, v, FALSE, OutPath("stimmung_line", user),
                           [kind |-> "line", x |-> CellsOf(sorted, d.col),
                            y |-> CellsOf(sorted, v)],
                           <<"Zeit">>, <<"Stimmungswert">>, <<"Stimmung", user>>)

\* the column the sort of plot_stimmung orders by, as the sort sees it
StimmungSortKey(t) ==
    LET d == DetectTimeCol(t)
    IN  IF IsEmpty(t) \/ d.col = None THEN <<>> ELSE CellsOf(d.df, d.col)

\* .dt.date
DateOf(c) == c.v \div TicksPerDay

RECURSIVE SortedSeq(_)
SortedSeq(S) == IF S = {} THEN <<>> ELSE <<Min(S)>> \o SortedSeq(S \ {Min(S)})

\* plot_mahlzeit
MahlzeitPlan(t, user) ==
    IF IsEmpty(t) THEN AbsentPlan(t, None, None)
    ELSE LET d == DetectTimeCol(t)
         IN  IF d.col = None THEN AbsentPlan(d.df, None, None)
             ELSE LET i == ColIdx(d.df, d.col)
                      \* df[tcol] = pd.to_datetime(df[tcol], errors='coerce')
                      co == ConvertCol(d.df, i)
                      \* dropna(subset=[tcol])
                      kept == {r \in 1..NRows(co) : co[i].cells[r].k # "null"}
                      \* groupby("datum").size()
                      days == SortedSeq({DateOf(co[i].cells[r]) : r \in kept})
                      counts == [n \in 1..Len(days) |->
                          Cardinality({r \in kept : DateOf(co[i].cells[r]) = days[n]})]
                  IN  IF days = <<>> THEN AbsentPlan(co, d.col, None)
                      ELSE Plan(co, d.col, None, FALSE,
                                OutPath("mahlzeiten_bars", user),
                                [kind |-> "bar", x |-> days, y |-> counts],
                                <<"Datum">>, <<"Anzahl Mahlzeiten">>,
                                <<"Mahlzeiten pro Tag", user>>)

\* the pyplot calls of a synthesizer, one after the other, on registry fs:
\* figure, the drawing call, the labels and the title
Drawn(fs, plan) ==
    PltLabels(PltDraw(PltFigure(fs), plan.artist), plan.xlabel, plan.ylabel, plan.title)

WriteFile(fsys, path, content) ==
    [q \in DOMAIN fsys \cup {path} |-> IF q = path THEN content ELSE fsys[q]]

---------------------------------------------------------------------------
(* The tables SpecPlot draws its input from.                               *)

ColNames ==
    { <<"z","e","i","t">>,
      <<"s","t","a","r","t","Z","e","i","t">>,
      <<"D","a","t","u","m">>,
      <<"W","e","r","t">>,
      <<"w","e","r","t">> }

\* the contents a column of the column family may have (two rows)
ColumnSamples ==
    { <<"datetime", <<Dt(1), Dt(0)>> >>,
      <<"numeric",  <<Num(2), Num(1)>> >>,
      <<"object",   <<Str(1), Str(0)>> >>,
      <<"object",   <<Str(1), Bad>> >> }

\* typed columns of a table without rows
ZeroRowSamples ==
    { <<"datetime", <<>> >>, <<"numeric", <<>> >>, <<"object", <<>> >> }

DistinctNames(t) == \A i, j \in 1..Len(t) : t[i].name = t[j].name => i = j

TablesOver(samples, maxc) ==
    {t \in UNION {[1..n -> {Col(nm, sm[1], sm[2]) : nm \in ColNames, sm \in samples}] :
                    n \in 0..maxc} : DistinctNames(t)}

\* tables of up to MaxCols columns, every column name and content combined
ColumnTables == TablesOver(ColumnSamples, MaxCols)

ZeroRowTables == TablesOver(ZeroRowSamples, MaxCols - 1)

TimeCells(d) ==
    IF d = "datetime" THEN {Dt(t) : t \in 0..MaxTick} \cup {Null}
    ELSE {Str(t) : t \in 0..MaxTick} \cup {Bad, Null}

\* tables of up to MaxRows rows with a time column "zeit" (datetime values,
\* or strings some of which do not parse) and a numeric column "wert" that
\* numbers the rows
RowTables ==
    UNION {{ << Col(<<"z","e","i","t">>, d, cs),
                Col(<<"w","e","r","t">>, "numeric", [i \in 1..n |-> Num(i)]) >> :
             cs \in [1..n -> TimeCells(d)] } :
           n \in 1..MaxRows, d \in {"datetime", "object"}}

InputTables == ColumnTables \cup ZeroRowTables \cup RowTables

Users == {"u1", "u2"}

---------------------------------------------------------------------------
(* SpecPlot: one call on one table.                                        *)

NoFiles == [q \in {} |-> BlankFigure]

\* the output directory before the call: a chart of an earlier run
OldFiles == [q \in {OutPath("stuhlgang_scatter", "u1")} |-> BlankFigure]

InitPlot ==
    /\ df \in InputTables
    /\ dfin = df
    /\ op = "none"
    /\ pref = None
    /\ tcol = None
    /\ vcol = None
    /\ ret = None
    /\ files = OldFiles
    /\ figs = <<>>
    /\ store = <<>>
    /\ app = FALSE
    /\ th = <<>>

\* a whole synthesizer call: resolve, then figure, draw, label, savefig,
\* close, return the path; or return None before the first pyplot call
Render(name, plan) ==
    /\ op = "none"
    /\ op' = name
    /\ df' = plan.df
    /\ tcol' = plan.tcol
    /\ vcol' = plan.vcol
    /\ ret' = plan.path
    /\ IF plan.absent
       THEN UNCHANGED <<files, figs>>
       ELSE /\ files' = WriteFile(files, plan.path, PltSaved(Drawn(figs, plan)))
            /\ figs' = PltClose(Drawn(figs, plan))
    /\ UNCHANGED <<dfin, pref, store, app, th>>

CallPlotStuhlgang == \E u \in Users : Render("plot_stuhlgang", StuhlgangPlan(df, u))

CallPlotSymptome == \E u \in Users : Render("plot_symptome", SymptomePlan(df, u))

CallPlotStimmung ==
    \E u \in Users : \E perm \in SortPerms(StimmungSortKey(df)) :
        Render("plot_stimmung", StimmungPlan(df, u, perm))

CallPlotMahlzeit == \E u \in Users : Render("plot_mahlzeit", MahlzeitPlan(df, u))

CallDetectTimeCol ==
    /\ op = "none"
    /\ op' = "detect_time"
    /\ df' = DetectTimeCol(df).df
    /\ tcol' = DetectTimeCol(df).col
    /\ ret' = DetectTimeCol(df).col
    /\ UNCHANGED <<dfin, pref, vcol, files, figs, store, app, th>>

PrefLists == {PrefStuhlgang, PrefStimmung, PrefSymptome}

CallDetectValueCol ==
    /\ op = "none"
    /\ op' = "detect_value"
    /\ \E preference \in PrefLists :
        /\ pref' = preference
        /\ vcol' = DetectValueCol(df, preference)
        /\ ret' = DetectValueCol(df, preference)
    /\ UNCHANGED <<df, dfin, tcol, files, figs, store, app, th>>

NextPlot ==
    \/ CallPlotStuhlgang
    \/ CallPlotStimmung
    \/ CallPlotSymptome
    \/ CallPlotMahlzeit
    \/ CallDetectTimeCol
    \/ CallDetectValueCol

SpecPlot == InitPlot /\ [][NextPlot]_vars

---------------------------------------------------------------------------
(* The orchestrator, the endpoint and the exporter.                        *)

HeadRows == 30

Cats == <<"stuhlgang", "stimmung", "symptome", "mahlzeit">>

\* the sub-collection of each category, in the order the code fetches them
Collections == <<"stuhlgaenge", "stimmungen", "symptoms", "mahlzeiten">>

NCats == Len(Cats)

\* name.capitalize() of the four result keys
Capitalized ==
    [stuhlgang |-> "Stuhlgang", stimmung |-> "Stimmung",
     symptome |-> "Symptome", mahlzeit |-> "Mahlzeit"]

\* the table _df_from_user_subcollection builds: users/<uid>/<collection>
FetchForUser(db, collection_name, user) == db[user][collection_name]

\* the synthesizer of category k on table t
PlanOf(k, t, user) ==
    CASE k = 1 -> StuhlgangPlan(t, user)
      [] k = 2 -> StimmungPlan(t, user, StableSortPerm(StimmungSortKey(t)))
      [] k = 3 -> SymptomePlan(t, user)
      [] OTHER -> MahlzeitPlan(t, user)

\* (mutant) only the categories with a chart get a key
MutResultMappingPresentOnly(res) ==
    [c \in {Cats[i] : i \in {j \in 1..NCats : res[j] # None}} |->
        res[CHOOSE i \in 1..NCats : Cats[i] = c]]

\* the dict generate_analytics_for_user returns, res being the values the
\* four synthesizers returned
ResultMapping(res) ==
    [c \in {Cats[i] : i \in 1..NCats} |-> res[CHOOSE i \in 1..NCats : Cats[i] = c]]

BaseUrl == "https://cedmate-analytics-api.onrender.com"

\* the endpoint's mapped dict: a URL of the file name, or None
MappedResults(results) ==
    [key \in DOMAIN results |->
        IF results[key] # None THEN <<BaseUrl, "output">> \o results[key] ELSE None]

\* plot_paths of the exporter: the results that are set and whose file
\* exists, in the order of the results
PlotPaths(results, fsys) ==
    LET keep == {i \in 1..NCats : /\ Cats[i] \in DOMAIN results
                                  /\ results[Cats[i]] # None
                                  /\ results[Cats[i]] \in DOMAIN fsys}
    IN  [n \in 1..Cardinality(keep) |->
            LET i == CHOOSE j \in keep : Cardinality({m \in keep : m <= j}) = n
            IN  <<Cats[i], results[Cats[i]]>>]

\* (mutant) the whole table is shown
MutHeadAll(t, n) == t

\* df.head(n)
DfHead(t, n) ==
    [c \in 1..Len(t) |->
        Col(t[c].name, t[c].dtype,
            SubSeq(t[c].cells, 1, IF n < NRows(t) THEN n ELSE NRows(t)))]

TitlePage(user) == [kind |-> "title", name |-> user, body |-> <<>>]

ChartPage(name, image) == [kind |-> "chart", name |-> Capitalized[name], body |-> image]

\* a raw-data page: the no-data line, or the grid of the first rows
RawPage(col, t) ==
    IF IsEmpty(t) THEN [kind |-> "nodata", name |-> col, body |-> <<>>]
    ELSE [kind |-> "raw", name |-> col, body |-> DfHead(t, HeadRows)]

\* the state of one invocation that has not started
Thread(mode, user, req, faults) ==
    [mode |-> mode, user |-> user, req |-> req, faults |-> faults,
     phase |-> "analytics", pc |-> IF mode = "api" THEN "check" ELSE "get_app",
     k |-> 1, fault |-> FALSE, err |-> FALSE, at |-> "", data |-> <<>>,
     res |-> <<>>, plan |-> AbsentPlan(<<>>, None, None), returned |-> FALSE,
     out |-> <<>>, wrote |-> {}, partial |-> {}, resp |-> [status |-> 0, results |-> <<>>],
     raw |-> <<>>, paths |-> <<>>, pages |-> <<>>, pdf |-> FALSE]

Set(t, s) ==
    /\ th' = [th EXCEPT ![t] = s]
    /\ UNCHANGED <<df, dfin, op, pref, tcol, vcol, ret, store>>

\* (mutant) a failing category is skipped: its result is None
MutOnRaiseSkipCategory(s) ==
    IF s.pc \in {"figure", "draw", "labels", "savefig"}
    THEN [s EXCEPT !.fault = TRUE, !.res = Append(@, None),
                   !.pc = IF s.k = NCats THEN "return" ELSE "plan",
                   !.k = IF s.k = NCats THEN s.k ELSE s.k + 1]
    ELSE [s EXCEPT !.fault = TRUE, !.err = TRUE, !.at = s.pc, !.pc = "raised"]

\* an exception leaves generate_analytics_for_user: nothing catches it
OnRaise(s) == [s EXCEPT !.fault = TRUE, !.err = TRUE, !.at = s.pc, !.pc = "raised"]

\* analytics(): the header checks before the try block
ApiCheck(t) ==
    LET s == th[t]
    IN  /\ s.pc = "check"
        /\ UNCHANGED <<files, figs, app>>
        /\ IF ~s.req.key_ok
           THEN Set(t, [s EXCEPT !.pc = "done", !.resp.status = 401])
           ELSE IF s.req.origin = "foreign" \/ (s.req.origin = "none" /\ ~s.req.agent_ok)
           THEN Set(t, [s EXCEPT !.pc = "done", !.resp.status = 403])
           ELSE Set(t, [s EXCEPT !.pc = "get_app"])

\* connect_firestore up to firebase_admin.get_app()
GetApp(t) ==
    LET s == th[t]
    IN  /\ s.pc = "get_app"
        /\ UNCHANGED <<files, figs, app>>
        /\ Set(t, [s EXCEPT !.pc = IF app THEN "fetch" ELSE "init_app", !.k = 1])

\* connect_firestore: initialize_app in the except branch; it raises
\* ValueError when the default app exists by now
InitApp(t) ==
    LET s == th[t]
    IN  /\ s.pc = "init_app"
        /\ UNCHANGED <<files, figs>>
        /\ \/ /\ ~app
              /\ app' = TRUE
              /\ Set(t, [s EXCEPT !.pc = "fetch", !.k = 1])
           \/ /\ app
              /\ UNCHANGED app
              /\ Set(t, OnRaise(s))

\* one fetch_for_user: the four of the orchestrator, then (exporter) the
\* four of the raw data
Fetch(t) ==
    LET s == th[t]
        tab == FetchForUser(store, Collections[s.k], s.user)
        last == s.k = NCats
    IN  /\ s.pc = "fetch"
        /\ UNCHANGED <<files, figs, app>>
        /\ IF s.phase = "analytics"
           THEN Set(t, [s EXCEPT !.data = Append(@, tab),
                                 !.pc = IF last THEN "plan" ELSE "fetch",
                                 !.k = IF last THEN 1 ELSE s.k + 1])
           ELSE Set(t, [s EXCEPT !.raw = Append(@, tab),
                                 !.pc = IF last THEN "x_title" ELSE "fetch",
                                 !.k = IF last THEN 1 ELSE s.k + 1])

\* the next value of the dict literal is in: on to the next synthesizer
Returned(s, value) ==
    [s EXCEPT !.res = Append(@, value),
              !.pc = IF s.k = NCats THEN "return" ELSE "plan",
              !.k = IF s.k = NCats THEN s.k ELSE s.k + 1]

\* a synthesizer up to its first pyplot call: the empty check and the
\* column detection, on the thread's own table
PlanStep(t) ==
    LET s == th[t]
        plan == PlanOf(s.k, s.data[s.k], s.user)
    IN  /\ s.pc = "plan"
        /\ UNCHANGED <<files, figs, app>>
        /\ IF plan.absent
           THEN Set(t, Returned([s EXCEPT !.data[s.k] = plan.df], None))
           ELSE Set(t, [s EXCEPT !.data[s.k] = plan.df, !.plan = plan, !.pc = "figure"])

\* plt.figure(figsize=(10, 5))
FigureStep(t) ==
    LET s == th[t]
    IN  /\ s.pc = "figure"
        /\ figs' = PltFigure(figs)
        /\ Set(t, [s EXCEPT !.pc = "draw"])
        /\ UNCHANGED <<files, app>>

\* plt.scatter / plt.plot / counts.plot(kind="bar"): on the current figure
DrawStep(t) ==
    LET s == th[t]
    IN  /\ s.pc = "draw"
        /\ figs' = PltDraw(figs, s.plan.artist)
        /\ Set(t, [s EXCEPT !.pc = "labels"])
        /\ UNCHANGED <<files, app>>

\* plt.xlabel, plt.ylabel, plt.title, plt.tight_layout
LabelsStep(t) ==
    LET s == th[t]
    IN  /\ s.pc = "labels"
        /\ figs' = PltLabels(figs, s.plan.xlabel, s.plan.ylabel, s.plan.title)
        /\ Set(t, [s EXCEPT !.pc = "savefig"])
        /\ UNCHANGED <<files, app>>

\* plt.savefig(out_path): the current figure goes to the thread's path
SavefigStep(t) ==
    LET s == th[t]
    IN  /\ s.pc = "savefig"
        /\ files' = WriteFile(files, s.plan.path, PltSaved(figs))
        /\ figs' = WithCurrent(figs)
        /\ Set(t, [s EXCEPT !.pc = "close", !.wrote = @ \cup {s.plan.path}])
        /\ UNCHANGED app

\* plt.close() and return out_path
CloseStep(t) ==
    LET s == th[t]
    IN  /\ s.pc = "close"
        /\ figs' = PltClose(figs)
        /\ Set(t, Returned(s, s.plan.path))
        /\ UNCHANGED <<files, app>>

\* the dict literal is complete: generate_analytics_for_user returns
Return(t) ==
    LET s == th[t]
    IN  /\ s.pc = "return"
        /\ UNCHANGED <<files, figs, app>>
        /\ Set(t, [s EXCEPT !.returned = TRUE, !.out = ResultMapping(s.res),
                            !.pc = CASE s.mode = "api" -> "api_map"
                                     [] s.mode = "export" -> "x_paths"
                                     [] OTHER -> "done"])

\* the calls that may raise: the credentials and the store (connection,
\* fetch) and the rendering calls up to savefig
FaultPoints == {"get_app", "fetch", "figure", "draw", "labels", "savefig"}

Truncated == [artists |-> <<>>, xlabel |-> None, ylabel |-> None, title |-> <<"truncated">>]

\* a library call of the orchestrator raises (credentials missing, store
\* unreachable, rendering error); a failing savefig may have begun its file
Fault(t) ==
    LET s == th[t]
    IN  /\ s.faults
        /\ s.phase = "analytics"
        /\ s.pc \in FaultPoints
        /\ UNCHANGED <<figs, app>>
        /\ \/ /\ UNCHANGED files
              /\ Set(t, OnRaise(s))
           \/ /\ s.pc = "savefig"
              /\ files' = WriteFile(files, s.plan.path, Truncated)
              /\ Set(t, OnRaise([s EXCEPT !.partial = @ \cup {s.plan.path}]))

\* the exception reaches the caller: the endpoint turns it into a 500
Propagate(t) ==
    LET s == th[t]
    IN  /\ s.pc = "raised"
        /\ UNCHANGED <<files, figs, app>>
        /\ Set(t, [s EXCEPT !.pc = "done",
                            !.resp.status = IF s.mode = "api" THEN 500 ELSE 0])

\* analytics(): the mapped results and the response
ApiMap(t) ==
    LET s == th[t]
    IN  /\ s.pc = "api_map"
        /\ UNCHANGED <<files, figs, app>>
        /\ Set(t, [s EXCEPT !.pc = "done",
                            !.resp = [status |-> 200, results |-> MappedResults(s.out)]])

\* generate_export_pdf_for_user after the orchestrator returned
ExportPaths(t) ==
    LET s == th[t]
    IN  /\ s.pc = "x_paths"
        /\ UNCHANGED <<files, figs, app>>
        /\ Set(t, [s EXCEPT !.paths = PlotPaths(s.out, files), !.phase = "export",
                            !.pc = "get_app"])

\* PdfPages is opened and the title page saved
ExportTitle(t) ==
    LET s == th[t]
    IN  /\ s.pc = "x_title"
        /\ UNCHANGED <<files, figs, app>>
        /\ Set(t, [s EXCEPT !.pdf = TRUE, !.pages = <<TitlePage(s.user)>>,
                            !.pc = IF s.paths = <<>> THEN "x_raw" ELSE "x_chart",
                            !.k = 1])

\* one page of the loop over plot_paths
ExportChart(t) ==
    LET s == th[t]
        last == s.k = Len(s.paths)
    IN  /\ s.pc = "x_chart"
        /\ UNCHANGED <<files, figs, app>>
        /\ Set(t, [s EXCEPT !.pages = Append(@, ChartPage(s.paths[s.k][1],
                                                          files[s.paths[s.k][2]])),
                            !.pc = IF last THEN "x_raw" ELSE "x_chart",
                            !.k = IF last THEN 1 ELSE s.k + 1])

\* one page of the loop over db_data
ExportRaw(t) ==
    LET s == th[t]
        last == s.k = NCats
    IN  /\ s.pc = "x_raw"
        /\ UNCHANGED <<files, figs, app>>
        /\ Set(t, [s EXCEPT !.pages = Append(@, RawPage(Collections[s.k], s.raw[s.k])),
                            !.pc = IF last THEN "x_close" ELSE "x_raw",
                            !.k = IF last THEN s.k ELSE s.k + 1])

\* the with block ends: the document is written
ExportClose(t) ==
    LET s == th[t]
    IN  /\ s.pc = "x_close"
        /\ files' = WriteFile(files, OutPath("export", s.user), [pages |-> s.pages])
        /\ UNCHANGED <<figs, app>>
        /\ Set(t, [s EXCEPT !.pc = "done", !.wrote = @ \cup {OutPath("export", s.user)}])

---------------------------------------------------------------------------
(* Spec: the invocations.                                                  *)

IdCol(n) == Col(<<"i","d">>, "object", [i \in 1..n |-> Bad])

EmptyTable == <<>>

\* documents without any time field: the columns cannot be resolved
NoTimeTable ==
    << Col(<<"w","e","r","t">>, "numeric", <<Num(1), Num(2)>>), IdCol(2) >>

\* n documents of a user with a timestamp field and a numeric field, stored
\* latest first; base tells the users' values apart
DocsTable(n, base) ==
    << Col(<<"m","a","h","l","z","e","i","t","Z","e","i","t","p","u","n","k","t">>,
           "datetime", [i \in 1..n |-> Dt(base + n - i)]),
       Col(<<"w","e","r","t">>, "numeric", [i \in 1..n |-> Num(base + i)]),
       IdCol(n) >>

BaseOf == [u1 |-> 0, u2 |-> 100]

\* the tables a sub-collection of the single invocation's user may hold
SampleTables(u) ==
    {EmptyTable, NoTimeTable}
        \cup {DocsTable(n, BaseOf[u]) : n \in HeadRows..(HeadRows + MaxExtra)}

CollSet == {Collections[i] : i \in 1..NCats}

EmptyColls == [c \in CollSet |-> EmptyTable]

\* the store when one user is served
SingleStores ==
    {[u \in Users |-> IF u = "u1" THEN cs ELSE EmptyColls] :
        cs \in [CollSet -> SampleTables("u1")]}

\* the store when two users are served at once: both have two
\* bowel-movement documents
PairStore ==
    [u \in Users |->
        [c \in CollSet |->
            IF c = "stuhlgaenge" THEN DocsTable(1 + 1, BaseOf[u]) ELSE EmptyTable]]

NativeRequest == [key_ok |-> TRUE, origin |-> "none", agent_ok |-> TRUE]

Requests ==
    { NativeRequest,
      [key_ok |-> TRUE, origin |-> "allowed", agent_ok |-> FALSE],
      [key_ok |-> FALSE, origin |-> "none", agent_ok |-> TRUE],
      [key_ok |-> TRUE, origin |-> "foreign", agent_ok |-> TRUE],
      [key_ok |-> TRUE, origin |-> "none", agent_ok |-> FALSE] }

Accepted(req) ==
    req.key_ok /\ req.origin # "foreign" /\ (req.origin = "allowed" \/ req.agent_ok)

\* one invocation (direct, through the endpoint or through the exporter)
\* in which library calls may fail, or two direct ones at once from two
\* threads of a process that has or has not initialized firebase yet
Init ==
    /\ df = <<>>
    /\ dfin = <<>>
    /\ op = "none"
    /\ pref = None
    /\ tcol = None
    /\ vcol = None
    /\ ret = None
    /\ files = OldFiles
    /\ figs = <<>>
    /\ \/ /\ store \in SingleStores
          /\ app = FALSE
          /\ \E mode \in {"direct", "export"} :
                th = [t \in {1} |-> Thread(mode, "u1", NativeRequest, TRUE)]
       \/ /\ store \in SingleStores
          /\ \E req \in {r \in Requests : Accepted(r)} :
                /\ app = (req.origin = "allowed")
                /\ th = [t \in {1} |-> Thread("api", "u1", req, TRUE)]
       \/ /\ store = [u \in Users |-> EmptyColls]
          /\ app = TRUE
          /\ \E req \in {r \in Requests : ~Accepted(r)} :
                th = [t \in {1} |-> Thread("api", "u1", req, TRUE)]
       \/ /\ store = PairStore
          /\ app \in BOOLEAN
          /\ th = [t \in {1, 2} |->
                      Thread("direct", IF t = 1 THEN "u1" ELSE "u2", NativeRequest, FALSE)]

Next ==
    \/ \E t \in DOMAIN th : ApiCheck(t)
    \/ \E t \in DOMAIN th : GetApp(t)
    \/ \E t \in DOMAIN th : InitApp(t)
    \/ \E t \in DOMAIN th : Fetch(t)
    \/ \E t \in DOMAIN th : PlanStep(t)
    \/ \E t \in DOMAIN th : FigureStep(t)
    \/ \E t \in DOMAIN th : DrawStep(t)
    \/ \E t \in DOMAIN th : LabelsStep(t)
    \/ \E t \in DOMAIN th : SavefigStep(t)
    \/ \E t \in DOMAIN th : CloseStep(t)
    \/ \E t \in DOMAIN th : Return(t)
    \/ \E t \in DOMAIN th : Fault(t)
    \/ \E t \in DOMAIN th : Propagate(t)
    \/ \E t \in DOMAIN th : ApiMap(t)
    \/ \E t \in DOMAIN th : ExportPaths(t)
    \/ \E t \in DOMAIN th : ExportTitle(t)
    \/ \E t \in DOMAIN th : ExportChart(t)
    \/ \E t \in DOMAIN th : ExportRaw(t)
    \/ \E t \in DOMAIN th : ExportClose(t)

Spec == Init /\ [][Next]_vars

---------------------------------------------------------------------------
(* Properties of Spec.                                                     *)

CatSet == {Cats[i] : i \in 1..NCats}

ChartPrefix == <<"stuhlgang_scatter", "stimmung_line", "symptome_scatter", "mahlzeiten_bars">>

ChartPath(k, user) == <<ChartPrefix[k], user>>

\* C1: what generate_analytics_for_user returns has exactly the four keys,
\* each with the chart path of its category or None, and the results of the
\* endpoint's response have the same four keys, None where the chart is
\* absent.
C1_FourKeys ==
    \A t \in DOMAIN th :
        /\ th[t].returned =>
              /\ DOMAIN th[t].out = CatSet
              /\ \A k \in 1..NCats :
                    th[t].out[Cats[k]] \in {None, ChartPath(k, th[t].user)}
        /\ th[t].resp.status = 200 =>
              /\ DOMAIN th[t].resp.results = CatSet
              /\ \A c \in CatSet :
                    (th[t].resp.results[c] = None) <=> (th[t].out[c] = None)

\* the endpoint answered for a user with an empty, an undetectable and a
\* renderable category
C1_Witness ==
    \E t \in DOMAIN th :
        /\ th[t].resp.status = 200
        /\ store[th[t].user]["stuhlgaenge"] = EmptyTable
        /\ store[th[t].user]["stimmungen"] = NoTimeTable
        /\ th[t].out["stuhlgang"] = None
        /\ th[t].out["stimmung"] = None
        /\ th[t].resp.results["symptome"] # None

\* C3 as claimed: when a fetch or a render fails, nothing is returned and
\* no chart of any category has been written by the invocation; otherwise
\* the complete mapping is returned.
C3_AllOrNothing ==
    \A t \in DOMAIN th :
        /\ th[t].fault => (~th[t].returned /\ th[t].wrote = {})
        /\ (th[t].pc = "done" /\ ~th[t].fault /\ Accepted(th[t].req)) =>
              (th[t].returned /\ DOMAIN th[t].out = CatSet)

\* C3 as amended: a failure leaves the orchestrator as one error and no
\* mapping is returned (the endpoint answers 500); when the connection or a
\* fetch fails nothing has been written, when the render of category k
\* fails the charts written are those of categories before k (a failing
\* savefig may leave the file of k begun) and none of a later category;
\* without a failure the complete mapping is returned.
C3_FailFast ==
    \A t \in DOMAIN th :
        LET s == th[t]
        IN  /\ s.fault =>
                  /\ ~s.returned
                  /\ s.err
                  /\ s.pc \in {"raised", "done"}
                  /\ (s.pc = "done" /\ s.mode = "api") => s.resp.status = 500
                  /\ IF s.at \in {"get_app", "init_app", "fetch"}
                     THEN s.wrote = {} /\ s.partial = {}
                     ELSE /\ s.wrote \subseteq
                               {ChartPath(j, s.user) : j \in 1..(s.k - 1)}
                          /\ s.partial \subseteq {ChartPath(s.k, s.user)}
            /\ (s.pc = "done" /\ ~s.fault /\ Accepted(s.req)) =>
                  (s.returned /\ DOMAIN s.out = CatSet)

\* the render of the second category failed after the first chart was saved
C3_Witness ==
    \E t \in DOMAIN th :
        /\ th[t].fault
        /\ th[t].at = "draw"
        /\ th[t].k = 1 + 1
        /\ th[t].wrote = {ChartPath(1, th[t].user)}
        /\ ChartPath(1, th[t].user) \in DOMAIN files

\* C8: the exported document is the title page, then one chart page per
\* present chart in category order, then the four raw-data pages in
\* category order, each with at most the first HeadRows rows of its table or
\* the no-data line when the table is empty: 1 + present + 4 pages.
C8_PageOrder ==
    \A t \in DOMAIN th :
        (th[t].mode = "export" /\ th[t].pc = "done" /\ ~th[t].fault) =>
            LET s == th[t]
                doc == files[OutPath("export", s.user)].pages
                present == {i \in 1..NCats : s.out[Cats[i]] # None}
                n == Cardinality(present)
            IN  /\ Len(doc) = 1 + n + NCats
                /\ doc[1].kind = "title"
                /\ \A i \in present :
                      LET pg == doc[1 + Cardinality({j \in present : j <= i})]
                      IN  /\ pg.kind = "chart"
                          /\ pg.name = Capitalized[Cats[i]]
                          /\ pg.body = files[s.out[Cats[i]]]
                /\ \A k \in 1..NCats :
                      LET pg == doc[1 + n + k]
                          tab == store[s.user][Collections[k]]
                          shown == IF NRows(tab) < HeadRows THEN NRows(tab) ELSE HeadRows
                      IN  /\ pg.name = Collections[k]
                          /\ IF NRows(tab) = 0 THEN pg.kind = "nodata"
                             ELSE /\ pg.kind = "raw"
                                  /\ Len(pg.body) = Len(tab)
                                  /\ \A c \in 1..Len(tab) :
                                        /\ pg.body[c].name = tab[c].name
                                        /\ pg.body[c].cells = SubSeq(tab[c].cells, 1, shown)

\* a document with three chart pages, a no-data page and a last raw page
\* cut to the first HeadRows rows
C8_Witness ==
    \E t \in DOMAIN th :
        /\ th[t].mode = "export"
        /\ th[t].pc = "done"
        /\ ~th[t].fault
        /\ store[th[t].user]["stimmungen"] = EmptyTable
        /\ NRows(store[th[t].user]["mahlzeiten"]) > HeadRows
        /\ \A c \in CatSet : th[t].out[c] = None <=> c = "stimmung"
        /\ NRows(files[OutPath("export", th[t].user)].pages[1 + 3 + NCats].body) = HeadRows

\* the chart of category k a user gets when the invocations run one after
\* the other
SerialChart(k, user) ==
    PltSaved(Drawn(<<>>, PlanOf(k, store[user][Collections[k]], user)))

\* C9: two invocations for different users at once leave each user's
\* charts at the paths and with the content a one-after-the-other run gives,
\* and neither fails.
C9_NoInterference ==
    Cardinality(DOMAIN th) > 1 =>
        \A t \in DOMAIN th :
            th[t].pc = "done" =>
                /\ ~th[t].err
                /\ \A k \in 1..NCats :
                      LET plan == PlanOf(k, store[th[t].user][Collections[k]], th[t].user)
                      IN  IF plan.absent THEN th[t].out[Cats[k]] = None
                          ELSE /\ th[t].out[Cats[k]] = plan.path
                               /\ files[plan.path] = SerialChart(k, th[t].user)

---------------------------------------------------------------------------
(* Properties of SpecPlot.                                                 *)

PlotOps == {"plot_stuhlgang", "plot_stimmung", "plot_symptome", "plot_mahlzeit"}

zeit == <<"z","e","i","t">>

\* C2: on a table with zero rows each of the four synthesizers returns None
\* and leaves the files of the output directory as they were.
C2_EmptyTableAbsent ==
    (op \in PlotOps /\ NRows(dfin) = 0) => (ret = None /\ files = OldFiles)

\* a synthesizer ran on a table that has typed columns and no row
C2_Witness ==
    /\ op = "plot_stuhlgang"
    /\ NRows(dfin) = 0
    /\ \E i, j \in 1..Len(dfin) :
          dfin[i].dtype = "datetime" /\ dfin[j].dtype = "numeric"

\* the first column of t whose lowered name contains fragment k (0: none)
FirstWith(t, k) ==
    LET cand == {i \in 1..Len(t) : Contains(name_order[k], Lower(t[i].name))}
    IN  IF cand = {} THEN 0 ELSE Min(cand)

\* C5: _detect_time_col returns the first datetime-typed column whatever
\* the names are; else, for the first fragment of the fixed list whose
\* first matching column parses, that column (a column that fails to parse
\* sends the scan to the next fragment, never to the next column with the
\* same fragment); else None.
C5_TimePolicy ==
    op = "detect_time" =>
        LET typed == {i \in 1..Len(dfin) : dfin[i].dtype = "datetime"}
            good == {k \in 1..Len(name_order) :
                        /\ FirstWith(dfin, k) # 0
                        /\ \A r \in 1..NRows(dfin) :
                              dfin[FirstWith(dfin, k)].cells[r].k # "bad"}
        IN  ret = IF typed # {} THEN dfin[Min(typed)].name
                  ELSE IF good # {} THEN dfin[FirstWith(dfin, Min(good))].name
                  ELSE None

\* no typed column; the first "zeit" column does not parse, the second one
\* would, and the column of a later fragment is returned
C5_Witness ==
    /\ op = "detect_time"
    /\ Len(dfin) = 3
    /\ dfin[1] = Col(zeit, "object", <<Str(1), Bad>>)
    /\ dfin[2] = Col(<<"s","t","a","r","t","Z","e","i","t">>, "object", <<Str(1), Str(0)>>)
    /\ dfin[3].dtype = "numeric"
    /\ ret = <<"D","a","t","u","m">>

\* C10: when plot_stuhlgang, plot_stimmung or plot_symptome resolve both a
\* time and a value column, the two are different columns.
C10_TimeValueDistinct ==
    (op \in {"plot_stuhlgang", "plot_stimmung", "plot_symptome"}
        /\ tcol # None /\ vcol # None) => tcol # vcol

\* a numeric column became the time axis by its name and another numeric
\* column the value axis
C10_Witness ==
    /\ op = "plot_symptome"
    /\ Len(dfin) >= 2
    /\ dfin[1].dtype = "numeric"
    /\ tcol = dfin[1].name
    /\ vcol # None
    /\ ret # None

\* the (x, y) points of the first artist of the chart file at path
Points(path) ==
    LET a == files[path].artists[1]
    IN  [i \in 1..Len(a.x) |-> <<a.x[i], a.y[i]>>]

\* C7: the x-values plot_stimmung hands to the line plot never decrease
\* (values without a time come last), and its points are the rows of the
\* table in some order: none dropped, none twice.
C7_MoodSorted ==
    (op = "plot_stimmung" /\ ret # None) =>
        LET pts == Points(ret)
            n == Len(pts)
            rows == [i \in 1..NRows(df) |->
                        <<CellsOf(df, tcol)[i], CellsOf(df, vcol)[i]>>]
        IN  /\ \A i, j \in 1..n :
                 i < j => /\ (pts[i][1].k = "null" => pts[j][1].k = "null")
                          /\ (pts[i][1].k # "null" /\ pts[j][1].k # "null"
                                => pts[i][1].v <= pts[j][1].v)
            /\ n = NRows(dfin)
            /\ \E p \in Perms(n) : \A i \in 1..n : pts[i] = rows[p[i]]

\* a chart was drawn from rows stored in descending time order
C7_Witness ==
    /\ op = "plot_stimmung"
    /\ ret # None
    /\ NRows(dfin) = MaxRows
    /\ \A i \in 1..(MaxRows - 1) :
          /\ dfin[1].cells[i].k = "str"
          /\ dfin[1].cells[i + 1].k = "str"
          /\ dfin[1].cells[i].v > dfin[1].cells[i + 1].v

\* C4: _detect_value_col returns, for the first preferred name (in list
\* order) that some numeric column's lowered name equals, the first such
\* numeric column; else the first numeric column; else None.  A column with
\* a preferred name that is not numeric does not stand in the way of a later
\* numeric column with the same lowered name.
C4_ValuePolicy ==
    op = "detect_value" =>
        LET numeric == {i \in 1..Len(dfin) : dfin[i].dtype = "numeric"}
            hit(k) == {i \in numeric : Lower(dfin[i].name) = pref[k]}
            good == {k \in 1..Len(pref) : hit(k) # {}}
        IN  ret = IF good # {} THEN dfin[Min(hit(Min(good)))].name
                  ELSE IF numeric # {} THEN dfin[Min(numeric)].name
                  ELSE None

\* the columns that are typed as date/time or named like a time column
TimeLike(t) ==
    {i \in 1..Len(t) :
        \/ t[i].dtype = "datetime"
        \/ \E k \in 1..Len(name_order) : Contains(name_order[k], Lower(t[i].name))}

\* C6: for a non-empty meal table (with one time column) the chart has one
\* bar per calendar date, as high as the number of rows whose time value
\* parses to that date; rows whose time value does not parse are left out
\* and the chart is still made from the other rows.
C6_MealBuckets ==
    (op = "plot_mahlzeit" /\ NRows(dfin) > 0 /\ Cardinality(TimeLike(dfin)) = 1) =>
        LET c == dfin[CHOOSE i \in TimeLike(dfin) : TRUE].cells
            parsed == {r \in 1..Len(c) : c[r].k \notin {"bad", "null"}}
            days == SortedSeq({c[r].v \div TicksPerDay : r \in parsed})
        IN  IF parsed = {} THEN ret = None
            ELSE /\ ret # None
                 /\ files[ret].artists[1].x = days
                 /\ \A n \in 1..Len(days) :
                       files[ret].artists[1].y[n] =
                           Cardinality({r \in parsed : c[r].v \div TicksPerDay = days[n]})

===========================================================================
